---- MODULE Spec2Model ----
(***************************************************************************)
(* Petri-net analysis pipeline of main.py: explicit BFS reachability       *)
(* (reachability.py), symbolic reachability by a BDD fixed point           *)
(* (symbolic_bdd.py), ILP-based deadlock search (deadlock_ilp.py) and      *)
(* weighted optimisation over the reachable-set diagram (optimization.py). *)
(*                                                                         *)
(* A marking is an integer bitmask, as in the source.  A diagram of the    *)
(* dd library is modelled by the boolean function it denotes: a diagram    *)
(* over the current-state variables is the set of markings satisfying it,  *)
(* a diagram over current and next variables is a set of pairs.  Equal     *)
(* functions are equal handles (the library's canonical form).  The node   *)
(* structure (var, low, high) read by optimization.py is the reduced       *)
(* ordered diagram of that function in place order, with the two terminals *)
(* the source tests for (0 = False, 1 = True).                             *)
(***************************************************************************)
EXTENDS Integers, Sequences, FiniteSets, TLC

VARIABLES
  net,                \* PetriNet: places, transitions, initial
  mode,               \* which task of main.py runs after Task 3
  pc,                 \* position in main.py
  visited, q, pred,   \* bfs_reachability
  R,                  \* build_reachability_bdd: the current iterate
  bdd_iter,           \* history: passes of the fixed-point loop so far
  max_iter,           \* find_deadlock_with_ilp parameter
  oracle,             \* find_deadlock_with_ilp parameter is_reachable: the
                      \* markings it answers True for
  model,              \* the PuLP model: sequence of constraints
  iteration, status, M, cands, ret, log, report,
  weights, base_max_val, partial_marking,
  final_marking_dict, extra_score, final_total_score,
  final_bitmap_val, check_sum,
  aliased             \* history: a memo lookup hit another node's entry

vars == << net, mode, pc, visited, q, pred, R, bdd_iter, max_iter, oracle,
           model, iteration,
           status, M, cands, ret, log, report, weights, base_max_val,
           partial_marking, final_marking_dict, extra_score,
           final_total_score, final_bitmap_val, check_sum, aliased >>

reachVars == << visited, q, pred, R, bdd_iter >>
dlVars    == << model, iteration, status, M, cands, ret, log, report >>
optVars   == << weights, base_max_val, partial_marking, final_marking_dict,
                extra_score, final_total_score, final_bitmap_val, check_sum,
                aliased >>

(***************************************************************************)
(* Bounds of the model.                                                    *)
(***************************************************************************)
MaxPlaces == 2
MaxTrans == 2

\* Python None; an Optional[int] that holds m is Some(m)
None == << >>
Some(m) == << m >>
ValueOf(o) == o[1]

(***************************************************************************)
(* Bit operations on Python integers (markings and masks are >= 0).        *)
(***************************************************************************)
Bit(m, i) == (m \div (2 ^ i)) % 2

RECURSIVE BitAnd(_, _)
BitAnd(a, b) ==
  IF a = 0 \/ b = 0 THEN 0
  ELSE (a % 2) * (b % 2) + 2 * BitAnd(a \div 2, b \div 2)

RECURSIVE BitOr(_, _)
BitOr(a, b) ==
  IF a = 0 THEN b
  ELSE IF b = 0 THEN a
  ELSE (IF a % 2 = 1 \/ b % 2 = 1 THEN 1 ELSE 0) + 2 * BitOr(a \div 2, b \div 2)

\* a & ~b
RECURSIVE BitAndNot(_, _)
BitAndNot(a, b) ==
  IF a = 0 THEN 0
  ELSE (a % 2) * (1 - (b % 2)) + 2 * BitAndNot(a \div 2, b \div 2)

RECURSIVE SumOver(_, _)
SumOver(S, f) ==
  IF S = {} THEN 0
  ELSE LET x == CHOOSE y \in S : TRUE
       IN f[x] + SumOver(S \ {x}, f)

(***************************************************************************)
(* petri.py: the net handed over by parse_pnml.  A place id is a sequence  *)
(* of characters; ids are pairwise distinct (dict keys).                   *)
(***************************************************************************)
PlainIds == << <<"p", "0">>, <<"p", "1">>, <<"p", "2">>, <<"p", "3">> >>

NumPlaces == Len(net.places)
PlaceIdx == 0 .. (NumPlaces - 1)
Markings == 0 .. ((2 ^ NumPlaces) - 1)

\* place_index built with enumerate(places, 1): indices from one
place_indexFromOne == [p \in {net.places[i] : i \in 1 .. NumPlaces} |->
                         CHOOSE i \in 1 .. NumPlaces : net.places[i] = p]

\* place_index = {p: i for i, p in enumerate(places)}
place_index == [p \in {net.places[i] : i \in 1 .. NumPlaces} |->
                  (CHOOSE i \in 1 .. NumPlaces : net.places[i] = p) - 1]

Transition(n, j) == [id : {j}, pre_mask : 0 .. ((2 ^ n) - 1),
                     post_mask : 0 .. ((2 ^ n) - 1)]

TransitionLists(n) ==
  UNION { { ts \in [1 .. k -> Transition(n, 1) \cup Transition(n, 2)
                               \cup Transition(n, 3)] :
              \A j \in 1 .. k : ts[j].id = j } : k \in 1 .. MaxTrans }

PetriNet(ids) ==
  [places : {ids}, transitions : TransitionLists(Len(ids)),
   initial : 0 .. ((2 ^ Len(ids)) - 1)]

(***************************************************************************)
(* reachability.py                                                         *)
(***************************************************************************)
\* is_enabled testing (M & t.pre_mask) != 0: some preset place marked
is_enabledAny(m, t) == t.pre_mask = 0 \/ BitAnd(m, t.pre_mask) # 0

is_enabled(m, t) == BitAnd(m, t.pre_mask) = t.pre_mask

fire(m, t) == BitOr(BitAndNot(m, t.pre_mask), t.post_mask)

\* BfsExpand with `pred[M2] = (M, t.id)` placed before the test
\* `if M2 not in visited`: every enabled firing overwrites the entry
RECURSIVE BfsExpandPredAlways(_, _, _)
BfsExpandPredAlways(m, j, st) ==
  IF j > Len(net.transitions) THEN st
  ELSE LET t  == net.transitions[j]
           m2 == fire(m, t)
           pr == [x \in DOMAIN st.pred \cup {m2} |->
                    IF x = m2 THEN << m, t.id >> ELSE st.pred[x]]
       IN IF is_enabled(m, t) /\ m2 \notin st.visited
          THEN BfsExpandPredAlways(m, j + 1,
                 [visited |-> st.visited \cup {m2},
                  pred    |-> pr,
                  q       |-> Append(st.q, m2)])
          ELSE IF is_enabled(m, t)
          THEN BfsExpandPredAlways(m, j + 1,
                 [visited |-> st.visited, pred |-> pr, q |-> st.q])
          ELSE BfsExpandPredAlways(m, j + 1, st)

\* The for-loop over net.transitions at one dequeued marking m, from
\* transition j on; st = [visited, pred, q].
RECURSIVE BfsExpand(_, _, _)
BfsExpand(m, j, st) ==
  IF j > Len(net.transitions) THEN st
  ELSE LET t  == net.transitions[j]
           m2 == fire(m, t)
       IN IF is_enabled(m, t) /\ m2 \notin st.visited
          THEN BfsExpand(m, j + 1,
                 [visited |-> st.visited \cup {m2},
                  pred    |-> [x \in DOMAIN st.pred \cup {m2} |->
                                 IF x = m2 THEN << m, t.id >> ELSE st.pred[x]],
                  q       |-> Append(st.q, m2)])
          ELSE BfsExpand(m, j + 1, st)

EmptyMap == [x \in {} |-> 0]

\* main.py Task 1+2 start: visited = {start}, q = deque([start]), pred = {}
BfsStart ==
  /\ pc = "start"
  /\ visited' = {net.initial}
  /\ q' = << net.initial >>
  /\ pred' = EmptyMap
  /\ pc' = "bfs"
  /\ UNCHANGED << net, mode, R, bdd_iter, max_iter, oracle >>
  /\ UNCHANGED dlVars
  /\ UNCHANGED optVars

\* one iteration of `while q`
BfsStep ==
  /\ pc = "bfs"
  /\ q # << >>
  /\ LET st == BfsExpand(Head(q), 1,
                 [visited |-> visited, pred |-> pred, q |-> Tail(q)])
     IN /\ visited' = st.visited
        /\ pred' = st.pred
        /\ q' = st.q
  /\ UNCHANGED << net, mode, pc, R, bdd_iter, max_iter, oracle >>
  /\ UNCHANGED dlVars
  /\ UNCHANGED optVars

\* `while q` exits; main.py goes on to Task 3 (or ends)
BfsReturn ==
  /\ pc = "bfs"
  /\ q = << >>
  /\ pc' = IF mode = "explicit" THEN "done" ELSE "bdd_init"
  /\ UNCHANGED << net, mode, max_iter, oracle >>
  /\ UNCHANGED reachVars
  /\ UNCHANGED dlVars
  /\ UNCHANGED optVars

\* fmt_marking: the list `bits` of the places whose bit is set in m, in
\* place order, from position i on (the returned string joins this list)
RECURSIVE fmt_marking_bits(_, _, _)
fmt_marking_bits(m, place_names, i) ==
  IF i >= Len(place_names) THEN << >>
  ELSE IF Bit(m, i) = 1
       THEN << place_names[i + 1] >> \o fmt_marking_bits(m, place_names, i + 1)
       ELSE fmt_marking_bits(m, place_names, i + 1)

fmt_marking(m, place_names) == fmt_marking_bits(m, place_names, 0)

\* main.py: final_bitmap_val |= (1 << net.place_index[p]) for every marked
\* place p of the list, from position k on
RECURSIVE bitmap_of_places(_, _, _)
bitmap_of_places(marked, k, acc) ==
  IF k > Len(marked) THEN acc
  ELSE bitmap_of_places(marked, k + 1, BitOr(acc, 2 ^ place_index[marked[k]]))

(***************************************************************************)
(* symbolic_bdd.py                                                         *)
(***************************************************************************)
BddFalse == {}

\* rename_map = {nxt: bdd.var(curr)}: next variable of place i -> current
\* variable of place i
rename_map == [i \in PlaceIdx |-> i]

\* InitialBdd with the test on (net.initial >> idx) & 1 inverted
InitialBddInverted ==
  { m \in Markings :
      \A idx \in PlaceIdx :
        IF Bit(net.initial, idx) = 1 THEN Bit(m, idx) = 0 ELSE Bit(m, idx) = 1 }

\* initial-state diagram: conjunction of one literal per place
InitialBdd ==
  { m \in Markings :
      \A idx \in PlaceIdx :
        IF Bit(net.initial, idx) = 1 THEN Bit(m, idx) = 1 ELSE Bit(m, idx) = 0 }

\* enabled = conjunction of curr variables of the preset
EnabledBdd(t, m) ==
  \A i \in PlaceIdx : Bit(t.pre_mask, i) = 1 => Bit(m, i) = 1

\* per-place clause over (x, xnext)
Clause(t, i, m, m2) ==
  LET is_pre  == Bit(t.pre_mask, i) = 1
      is_post == Bit(t.post_mask, i) = 1
      x       == Bit(m, i) = 1
      xnext   == Bit(m2, i) = 1
  IN IF is_pre /\ ~is_post THEN x /\ ~xnext
     ELSE IF ~is_pre /\ is_post THEN ~x /\ xnext
     ELSE IF is_pre /\ is_post THEN x /\ xnext
     ELSE (x /\ xnext) \/ (~x /\ ~xnext)

\* trans_bdds entry: enabled AND relation, over current and next variables
TransBdd(t) ==
  { p \in Markings \X Markings :
      /\ EnabledBdd(t, p[1])
      /\ \A i \in PlaceIdx : Clause(t, i, p[1], p[2]) }

\* bdd.exist(curr_name_set, inter): a function of the next variables
BddExist(inter) == { p[2] : p \in inter }

\* bdd.let(rename_map, img): next variables renamed to current ones
BddLet(img) ==
  { SumOver(PlaceIdx, [i \in PlaceIdx |-> Bit(m2, i) * (2 ^ rename_map[i])]) :
      m2 \in img }

\* ImageUnion with `break` in place of `continue` on an empty intersection
RECURSIVE ImageUnionBreak(_, _, _)
ImageUnionBreak(r, j, r_next) ==
  IF j > Len(net.transitions) THEN r_next
  ELSE LET inter == { p \in TransBdd(net.transitions[j]) : p[1] \in r }
       IN IF inter = BddFalse
          THEN r_next
          ELSE ImageUnionBreak(r, j + 1, r_next \cup BddLet(BddExist(inter)))

\* the for-loop over trans_bdds of one fixed-point iteration
RECURSIVE ImageUnion(_, _, _)
ImageUnion(r, j, r_next) ==
  IF j > Len(net.transitions) THEN r_next
  ELSE LET inter == { p \in TransBdd(net.transitions[j]) : p[1] \in r }
       IN IF inter = BddFalse
          THEN ImageUnion(r, j + 1, r_next)
          ELSE ImageUnion(r, j + 1, r_next \cup BddLet(BddExist(inter)))

\* R_new taken to be R_next alone, without the union with R
R_newImageOnly(r) == ImageUnion(r, 1, BddFalse)

\* R_new = bdd.apply("or", R, R_next)
R_new(r) == r \cup ImageUnion(r, 1, BddFalse)

\* build_reachability_bdd up to the fixed-point loop
BddInit ==
  /\ pc = "bdd_init"
  /\ R' = InitialBdd
  /\ bdd_iter' = 0
  /\ pc' = "bdd_loop"
  /\ UNCHANGED << net, mode, visited, q, pred, max_iter, oracle >>
  /\ UNCHANGED dlVars
  /\ UNCHANGED optVars

\* BddIterate without the test R_new == R: the loop goes on although the
\* iteration added nothing
BddIterateNoTest ==
  /\ pc = "bdd_loop"
  /\ R' = R_new(R)
  /\ bdd_iter' = bdd_iter + 1
  /\ UNCHANGED << net, mode, pc, visited, q, pred, max_iter, oracle >>
  /\ UNCHANGED dlVars
  /\ UNCHANGED optVars

\* one iteration of the fixed-point loop that does not converge
BddIterate ==
  /\ pc = "bdd_loop"
  /\ R_new(R) # R
  /\ R' = R_new(R)
  /\ bdd_iter' = bdd_iter + 1
  /\ UNCHANGED << net, mode, pc, visited, q, pred, max_iter, oracle >>
  /\ UNCHANGED dlVars
  /\ UNCHANGED optVars

\* R_new == R: break, return (bdd, R, curr_vars)
BddConverge ==
  /\ pc = "bdd_loop"
  /\ R_new(R) = R
  /\ pc' = CASE mode = "deadlock" -> "dl_build"
             [] mode = "optimize" -> "opt_weights"
             [] OTHER -> "done"
  /\ bdd_iter' = bdd_iter + 1
  /\ UNCHANGED << net, mode, visited, q, pred, R, max_iter, oracle >>
  /\ UNCHANGED dlVars
  /\ UNCHANGED optVars

\* is_marking_reachable_bdd: every current variable substituted by a constant
is_marking_reachable_bdd(m) == m \in R

\* bdd.count(R, nvars=len(curr_vars))
count_bdd == Cardinality(R)

(***************************************************************************)
(* deadlock_ilp.py                                                         *)
(***************************************************************************)
DefaultMaxIter == 1000

\* values of the max_iter parameter: two small caps and the default
MaxIterValues == {1, 2, DefaultMaxIter}

\* preset_indices = [i for i in range(num_places) if (t.pre_mask >> i) & 1]
preset_indices(t) == { i \in PlaceIdx : Bit(t.pre_mask, i) = 1 }

HasEmptyPreset == \E j \in 1 .. Len(net.transitions) :
                    preset_indices(net.transitions[j]) = {}

\* The for-loop of build_deadlock_ilp_model.  For an empty preset the
\* statement is `model += 0 >= 1, name`: Python evaluates 0 >= 1 to False
\* before PuLP sees it, so what reaches LpProblem.__iadd__ is (False, name),
\* not a constraint.  PuLP either raises TypeError on False or takes the
\* number as the objective; in neither case is a constraint recorded.
RECURSIVE BuildConstraints(_, _)
BuildConstraints(j, mdl) ==
  IF j > Len(net.transitions) THEN mdl
  ELSE LET t == net.transitions[j]
       IN IF preset_indices(t) # {}
          THEN BuildConstraints(j + 1,
                 Append(mdl, [kind |-> "dead", name |-> t.id,
                              idx |-> preset_indices(t), m |-> 0]))
          ELSE BuildConstraints(j + 1, mdl)

build_deadlock_ilp_model == BuildConstraints(1, << >>)

\* block_constraint for the candidate m
block_constraint(m, it) ==
  [kind |-> "block", name |-> it, idx |-> PlaceIdx, m |-> m]

\* Satisfies with the dead-marking constraint written ">= 0": it excludes
\* no assignment
SatisfiesDeadGeqZero(x, c) ==
  IF c.kind = "dead"
  THEN SumOver(c.idx, [i \in c.idx |-> 1 - x[i]]) >= 0
  ELSE SumOver(c.idx, [i \in c.idx |->
                         IF Bit(c.m, i) = 1 THEN x[i] ELSE 1 - x[i]])
         <= NumPlaces - 1

\* Satisfies with the blocking constraint written "<= num_places": it
\* excludes no assignment
SatisfiesBlockLeqN(x, c) ==
  IF c.kind = "dead"
  THEN SumOver(c.idx, [i \in c.idx |-> 1 - x[i]]) >= 1
  ELSE SumOver(c.idx, [i \in c.idx |->
                         IF Bit(c.m, i) = 1 THEN x[i] ELSE 1 - x[i]])
         <= NumPlaces

\* whether the 0/1 assignment x satisfies constraint c
Satisfies(x, c) ==
  IF c.kind = "dead"
  THEN SumOver(c.idx, [i \in c.idx |-> 1 - x[i]]) >= 1
  ELSE SumOver(c.idx, [i \in c.idx |->
                         IF Bit(c.m, i) = 1 THEN x[i] ELSE 1 - x[i]])
         <= NumPlaces - 1

\* the assignments the solver may return with status Optimal
Solutions(mdl) ==
  { x \in [PlaceIdx -> {0, 1}] : \A k \in 1 .. Len(mdl) : Satisfies(x, mdl[k]) }

\* statuses of pulp.LpStatus that are neither Optimal nor Infeasible
InconclusiveStatus == {"Not Solved", "Undefined"}

\* M |= (1 << i) for every x[i].varValue > 0.5
Decode(x) == SumOver(PlaceIdx, [i \in PlaceIdx |-> x[i] * (2 ^ i)])

\* is_reachable(M): the call of the oracle argument
is_reachable(m) == m \in oracle

\* the oracle main.py passes: is_reachable_marking, a closure over R
is_reachable_marking == { m \in Markings : is_marking_reachable_bdd(m) }

\* the explicit-enumeration oracle: membership in the visited set returned
\* by bfs_reachability
is_reachable_bfs == { m \in Markings : m \in visited }

\* every predicate on markings a caller can pass as is_reachable
Oracles == SUBSET Markings

NoDeadlockReport == << "No reachable deadlock found." >>

\* model, x = build_deadlock_ilp_model(net); iteration = 0
DlBuild ==
  /\ pc = "dl_build"
  /\ \E mi \in MaxIterValues : max_iter' = mi
  /\ oracle' = is_reachable_marking
  /\ model' = build_deadlock_ilp_model
  /\ iteration' = 0
  /\ pc' = "dl_loop"
  /\ UNCHANGED << net, mode, status, M, cands, ret, log, report >>
  /\ UNCHANGED reachVars
  /\ UNCHANGED optVars

\* find_deadlock_with_ilp(net, is_reachable, max_iter) called with any oracle
DlBuildAnyOracle ==
  /\ pc = "dl_build"
  /\ \E mi \in MaxIterValues : max_iter' = mi
  /\ \E o \in Oracles : oracle' = o
  /\ model' = build_deadlock_ilp_model
  /\ iteration' = 0
  /\ pc' = "dl_loop"
  /\ UNCHANGED << net, mode, status, M, cands, ret, log, report >>
  /\ UNCHANGED reachVars
  /\ UNCHANGED optVars

\* `model += 0 >= 1, name` raising TypeError: the call, and main, abort
DlBuildRaise ==
  /\ pc = "dl_build"
  /\ HasEmptyPreset
  /\ pc' = "crashed"
  /\ UNCHANGED << net, mode, max_iter, oracle >>
  /\ UNCHANGED reachVars
  /\ UNCHANGED dlVars
  /\ UNCHANGED optVars

\* iteration > max_iter: warn and return None
DlLimit ==
  /\ pc = "dl_loop"
  /\ iteration + 1 > max_iter
  /\ iteration' = iteration + 1
  /\ ret' = None
  /\ log' = "WARN max_iter exceeded"
  /\ pc' = "dl_return"
  /\ UNCHANGED << net, mode, max_iter, oracle, model, status, M, cands, report >>
  /\ UNCHANGED reachVars
  /\ UNCHANGED optVars

\* model.solve ends Optimal with some satisfying assignment; M is decoded
DlSolveOptimal ==
  /\ pc = "dl_loop"
  /\ iteration + 1 <= max_iter
  /\ \E x \in Solutions(model) :
       /\ M' = Decode(x)
       /\ cands' = Append(cands, Decode(x))
  /\ iteration' = iteration + 1
  /\ status' = "Optimal"
  /\ pc' = "dl_check"
  /\ UNCHANGED << net, mode, max_iter, oracle, model, ret, log, report >>
  /\ UNCHANGED reachVars
  /\ UNCHANGED optVars

\* model.solve proves infeasibility: status_str != "Optimal", return None
DlSolveInfeasible ==
  /\ pc = "dl_loop"
  /\ iteration + 1 <= max_iter
  /\ Solutions(model) = {}
  /\ iteration' = iteration + 1
  /\ status' = "Infeasible"
  /\ ret' = None
  /\ log' = "INFO no dead marking"
  /\ pc' = "dl_return"
  /\ UNCHANGED << net, mode, max_iter, oracle, model, M, cands, report >>
  /\ UNCHANGED reachVars
  /\ UNCHANGED optVars

\* model.solve ends with neither answer: status_str != "Optimal", return None
DlSolveInconclusive ==
  /\ pc = "dl_loop"
  /\ iteration + 1 <= max_iter
  /\ \E s \in InconclusiveStatus : status' = s
  /\ iteration' = iteration + 1
  /\ ret' = None
  /\ log' = "INFO no dead marking"
  /\ pc' = "dl_return"
  /\ UNCHANGED << net, mode, max_iter, oracle, model, M, cands, report >>
  /\ UNCHANGED reachVars
  /\ UNCHANGED optVars

\* is_reachable(M): return M
DlFound ==
  /\ pc = "dl_check"
  /\ is_reachable(M)
  /\ ret' = Some(M)
  /\ log' = "INFO found"
  /\ pc' = "dl_return"
  /\ UNCHANGED << net, mode, max_iter, oracle, model, iteration, status, M, cands, report >>
  /\ UNCHANGED reachVars
  /\ UNCHANGED optVars

\* M not reachable: add the blocking constraint and loop
DlBlock ==
  /\ pc = "dl_check"
  /\ ~is_reachable(M)
  /\ model' = Append(model, block_constraint(M, iteration))
  /\ pc' = "dl_loop"
  /\ UNCHANGED << net, mode, max_iter, oracle, iteration, status, M, cands, ret, log, report >>
  /\ UNCHANGED reachVars
  /\ UNCHANGED optVars

\* main.py: what is printed as [RESULT] for the returned dead_M
MainDeadlockReport ==
  /\ pc = "dl_return"
  /\ report' = IF ret = None THEN NoDeadlockReport ELSE << "Deadlock marking", ValueOf(ret) >>
  /\ pc' = "done"
  /\ UNCHANGED << net, mode, max_iter, oracle, model, iteration, status, M, cands, ret, log >>
  /\ UNCHANGED reachVars
  /\ UNCHANGED optVars

\* the body of the while loop of find_deadlock_with_ilp
DlLoop ==
  \/ DlLimit \/ DlSolveOptimal \/ DlSolveInfeasible
  \/ DlSolveInconclusive \/ DlFound \/ DlBlock

DlNext == DlBuild \/ DlBuildRaise \/ DlLoop \/ MainDeadlockReport

(***************************************************************************)
(* Names of diagram variables (symbolic_bdd.py) and their inverse          *)
(* (optimization.py).                                                      *)
(***************************************************************************)
DigitChars == {"0", "1", "2", "3", "4", "5", "6", "7", "8", "9"}

LetterChars ==
  {"a", "b", "c", "d", "e", "f", "g", "h", "i", "j", "k", "l", "m",
   "n", "o", "p", "q", "r", "s", "t", "u", "v", "w", "x", "y", "z",
   "A", "B", "C", "D", "E", "F", "G", "H", "I", "J", "K", "L", "M",
   "N", "O", "P", "Q", "R", "S", "T", "U", "V", "W", "X", "Y", "Z"}

\* re.sub(r"[^0-9A-Za-z_]", "_", name)
_sanitize(name) ==
  [k \in 1 .. Len(name) |->
     IF name[k] \in DigitChars \cup LetterChars \cup {"_"} THEN name[k] ELSE "_"]

\* str(i) for a place index
DecimalDigits == << "0", "1", "2", "3", "4", "5", "6", "7", "8", "9" >>

RECURSIVE Str(_)
Str(i) == IF i < 10 THEN << DecimalDigits[i + 1] >>
          ELSE Str(i \div 10) \o << DecimalDigits[(i % 10) + 1] >>

\* curr = f"v{i}_{base}" for place index i
curr_var(i) == << "v" >> \o Str(i) \o << "_" >> \o _sanitize(net.places[i + 1])

\* first position >= k of name that holds no digit (Len(name) + 1 if none)
RECURSIVE DigitsEnd(_, _)
DigitsEnd(name, k) ==
  IF k > Len(name) \/ name[k] \notin DigitChars THEN k
  ELSE DigitsEnd(name, k + 1)

\* re.match(r"v\d+_(.+)", bdd_var_name): group 1, or the name itself
get_original_name(bdd_var_name) ==
  LET e == DigitsEnd(bdd_var_name, 2)
  IN IF /\ Len(bdd_var_name) >= 1
        /\ bdd_var_name[1] = "v"
        /\ e > 2
        /\ e < Len(bdd_var_name)
        /\ bdd_var_name[e] = "_"
     THEN SubSeq(bdd_var_name, e + 1, Len(bdd_var_name))
     ELSE bdd_var_name

(***************************************************************************)
(* The node structure of a diagram over the current variables: the reduced *)
(* ordered diagram of the function f in place order.                       *)
(***************************************************************************)
WithBit(m, i, b) == m - Bit(m, i) * (2 ^ i) + b * (2 ^ i)

DependsOn(f, i) == \E m \in Markings : (m \in f) # (WithBit(m, i, 1 - Bit(m, i)) \in f)

\* level of bdd_node.var: the first place the function depends on
NodeLevel(f) == CHOOSE i \in PlaceIdx :
                  DependsOn(f, i) /\ \A k \in PlaceIdx : DependsOn(f, k) => i <= k

\* bdd_node.var
NodeVar(f) == curr_var(NodeLevel(f))

\* bdd_node.low, bdd_node.high
NodeLow(f) == { m \in Markings : WithBit(m, NodeLevel(f), 0) \in f }
NodeHigh(f) == { m \in Markings : WithBit(m, NodeLevel(f), 1) \in f }

(***************************************************************************)
(* optimization.py                                                         *)
(***************************************************************************)
\* a returned (score, path); float('-inf') is the record with inf = TRUE
NegInf == [inf |-> TRUE, score |-> 0, path |-> EmptyMap]
Zero == [inf |-> FALSE, score |-> 0, path |-> EmptyMap]

\* weights.get(name, 0)
WeightGet(w, name) == IF name \in DOMAIN w THEN w[name] ELSE 0

\* best_path = path.copy(); best_path[name] = bit
PathSet(path, name, bit) ==
  [k \in DOMAIN path \cup {name} |-> IF k = name THEN bit ELSE path[k]]

\* Combine with best_path[original_place_name] = 0 written in both branches
CombineBitZero(f, w, r_low, r_high) ==
  LET name == get_original_name(NodeVar(f))
      wt == WeightGet(w, name)
      score_high == IF r_high.inf THEN r_high.score ELSE r_high.score + wt
      high_wins == \/ r_low.inf
                   \/ (~r_high.inf /\ score_high >= r_low.score)
  IN IF high_wins
     THEN [inf |-> r_high.inf, score |-> score_high,
           path |-> PathSet(r_high.path, name, 0)]
     ELSE [inf |-> r_low.inf, score |-> r_low.score,
           path |-> PathSet(r_low.path, name, 0)]

\* steps 3 to 5 of find_optimal_marking for node f, given the results of the
\* two recursive calls
Combine(f, w, r_low, r_high) ==
  LET name == get_original_name(NodeVar(f))
      wt == WeightGet(w, name)
      score_high == IF r_high.inf THEN r_high.score ELSE r_high.score + wt
      high_wins == \/ r_low.inf
                   \/ (~r_high.inf /\ score_high >= r_low.score)
  IN IF high_wins
     THEN [inf |-> r_high.inf, score |-> score_high,
           path |-> PathSet(r_high.path, name, 1)]
     ELSE [inf |-> r_low.inf, score |-> r_low.score,
           path |-> PathSet(r_low.path, name, 0)]

\* find_optimal_marking(bdd_node, weights, memo): every outcome the call can
\* have.  The memo key is id(bdd_node), the address of the wrapper object
\* that bdd_node.low / bdd_node.high create for the call and that is
\* released when the call returns; a later wrapper may get the address of
\* any released one, so a lookup may hit any entry stored so far, or none.
\* An outcome is [res, memo, aliased]: the returned pair, the memo after the
\* call (entries [node, res]) and whether a lookup hit another node's entry.
RECURSIVE find_optimal_marking(_, _, _)
find_optimal_marking(f, w, memo) ==
  IF f = {} THEN { [res |-> NegInf, memo |-> memo, aliased |-> FALSE] }
  ELSE IF f = Markings THEN { [res |-> Zero, memo |-> memo, aliased |-> FALSE] }
  ELSE
    { [res |-> e.res, memo |-> memo, aliased |-> (e.node # f)] : e \in memo }
    \cup
    UNION { UNION { LET r == Combine(f, w, lo.res, hi.res)
                    IN { [res |-> r,
                          memo |-> hi.memo \cup { [node |-> f, res |-> r] },
                          aliased |-> (lo.aliased \/ hi.aliased)] }
                    : hi \in find_optimal_marking(NodeHigh(f), w, lo.memo) }
            : lo \in find_optimal_marking(NodeLow(f), w, memo) }

\* the for-loop of complete_and_optimize_marking from place k on;
\* acc = [full_marking, extra_score]
RECURSIVE CompleteFrom(_, _, _, _, _)
CompleteFrom(k, partial, places, w, acc) ==
  IF k > Len(places) THEN acc
  ELSE LET p == places[k]
       IN IF p \in DOMAIN partial
          THEN CompleteFrom(k + 1, partial, places, w,
                 [full_marking |-> PathSet(acc.full_marking, p, partial[p]),
                  extra_score |-> acc.extra_score])
          ELSE IF WeightGet(w, p) > 0
          THEN CompleteFrom(k + 1, partial, places, w,
                 [full_marking |-> PathSet(acc.full_marking, p, 1),
                  extra_score |-> acc.extra_score + WeightGet(w, p)])
          ELSE CompleteFrom(k + 1, partial, places, w,
                 [full_marking |-> PathSet(acc.full_marking, p, 0),
                  extra_score |-> acc.extra_score])

complete_and_optimize_marking(partial, places, w) ==
  CompleteFrom(1, partial, places, w,
               [full_marking |-> EmptyMap, extra_score |-> 0])

\* weights drawn for a place: a negative, zero and two positive values
WeightValues == {-1, 0, 1, 2}

PlaceSet == { net.places[k] : k \in 1 .. NumPlaces }

\* main.py: weights[p] = random.randint(-5, 10) for every place
GenWeights ==
  /\ pc = "opt_weights"
  /\ weights' \in [PlaceSet -> WeightValues]
  /\ pc' = "opt_find"
  /\ UNCHANGED << net, mode, max_iter, oracle, base_max_val, partial_marking,
                  final_marking_dict, extra_score, final_total_score,
                  final_bitmap_val, check_sum, aliased >>
  /\ UNCHANGED reachVars
  /\ UNCHANGED dlVars

\* base_max_val, partial_marking = find_optimal_marking(R, weights)
FindOptimal ==
  /\ pc = "opt_find"
  /\ \E o \in find_optimal_marking(R, weights, {}) :
       /\ base_max_val' = [inf |-> o.res.inf, score |-> o.res.score]
       /\ partial_marking' = o.res.path
       /\ aliased' = o.aliased
  /\ pc' = "opt_complete"
  /\ UNCHANGED << net, mode, max_iter, oracle, weights, final_marking_dict, extra_score,
                  final_total_score, final_bitmap_val, check_sum >>
  /\ UNCHANGED reachVars
  /\ UNCHANGED dlVars

\* main.py: the -inf test, don't-care completion, total, bitmap and the
\* verification sum
CompleteAndReport ==
  /\ pc = "opt_complete"
  /\ IF base_max_val.inf
     THEN /\ pc' = "opt_none"
          /\ UNCHANGED << final_marking_dict, extra_score, final_total_score,
                          final_bitmap_val, check_sum >>
     ELSE LET c == complete_and_optimize_marking(partial_marking, net.places, weights)
          IN /\ final_marking_dict' = c.full_marking
             /\ extra_score' = c.extra_score
             /\ final_total_score' = base_max_val.score + c.extra_score
             /\ final_bitmap_val' =
                  SumOver({ p \in DOMAIN c.full_marking : c.full_marking[p] = 1 },
                          [p \in DOMAIN c.full_marking |-> 2 ^ place_index[p]])
             /\ check_sum' =
                  SumOver(1 .. NumPlaces,
                          [k \in 1 .. NumPlaces |->
                             weights[net.places[k]] * c.full_marking[net.places[k]]])
             /\ pc' = "opt_done"
  /\ UNCHANGED << net, mode, max_iter, oracle, weights, base_max_val, partial_marking, aliased >>
  /\ UNCHANGED reachVars
  /\ UNCHANGED dlVars

OptNext == GenWeights \/ FindOptimal \/ CompleteAndReport

(***************************************************************************)
(* Specification of the reachability tasks (main.py --symbolic).           *)
(***************************************************************************)
InitCommon ==
  /\ pc = "start"
  /\ visited = {} /\ q = << >> /\ pred = EmptyMap
  /\ R = {}                \* not built yet
  /\ bdd_iter = 0
  /\ oracle = {}           \* bound when find_deadlock_with_ilp is called
  /\ model = << >> /\ iteration = 0 /\ status = "" /\ M = 0
  /\ cands = << >> /\ ret = None /\ log = "" /\ report = None
  /\ weights = None /\ base_max_val = None /\ partial_marking = None
  /\ final_marking_dict = None /\ extra_score = None
  /\ final_total_score = None /\ final_bitmap_val = None /\ check_sum = None
  /\ aliased = FALSE

Init ==
  /\ \E n \in 1 .. MaxPlaces : net \in PetriNet(SubSeq(PlainIds, 1, n))
  /\ mode = "symbolic"
  /\ max_iter = 0           \* bound when find_deadlock_with_ilp is called
  /\ InitCommon

ReachNext == BfsStart \/ BfsStep \/ BfsReturn \/ BddInit \/ BddIterate \/ BddConverge

Next == ReachNext

Spec == Init /\ [][Next]_vars

(***************************************************************************)
(* Specification of the deadlock task (main.py --deadlock).  The loop of   *)
(* find_deadlock_with_ilp is sequential code that always takes its next    *)
(* step, which the fair specification states.                              *)
(***************************************************************************)
InitDeadlock ==
  /\ \E n \in 1 .. MaxPlaces : net \in PetriNet(SubSeq(PlainIds, 1, n))
  /\ mode = "deadlock"
  /\ max_iter = 0           \* bound when find_deadlock_with_ilp is called
  /\ InitCommon

NextDeadlock == ReachNext \/ DlNext

SpecDeadlock == InitDeadlock /\ [][NextDeadlock]_vars

FairSpecDeadlock == SpecDeadlock /\ WF_vars(NextDeadlock)

(***************************************************************************)
(* Specification of find_deadlock_with_ilp called with an arbitrary oracle *)
(* argument on the net main.py has analysed.                               *)
(***************************************************************************)
NextDeadlockOracle == ReachNext \/ DlBuildAnyOracle \/ DlBuildRaise \/ DlLoop

SpecDeadlockOracle == InitDeadlock /\ [][NextDeadlockOracle]_vars

(***************************************************************************)
(* The reachability tasks as sequential code that always takes its next    *)
(* step.                                                                   *)
(***************************************************************************)
FairSpec == Spec /\ WF_vars(Next)

(***************************************************************************)
(* Specification of the optimisation task (main.py --optimize).  Place ids *)
(* are drawn from ids with and without characters that _sanitize rewrites. *)
(***************************************************************************)
OptIds == { <<"p", "0">>, <<"p", "_", "1">>, <<"p", "-", "1">> }

OptPlaceLists ==
  UNION { { ps \in [1 .. n -> OptIds] :
              \A a, b \in 1 .. n : a # b => ps[a] # ps[b] } : n \in 1 .. MaxPlaces }

InitOpt ==
  /\ \E ids \in OptPlaceLists : net \in PetriNet(ids)
  /\ mode = "optimize"
  /\ max_iter = 0
  /\ InitCommon

NextOpt == ReachNext \/ OptNext

SpecOpt == InitOpt /\ [][NextOpt]_vars


(***************************************************************************)
(* Properties.                                                             *)
(***************************************************************************)
\* a dead marking: every transition has at least one preset place empty
IsDeadMarking(m) ==
  \A j \in 1 .. Len(net.transitions) :
    \E i \in preset_indices(net.transitions[j]) : Bit(m, i) = 0

DeadlockPhase == pc \in {"dl_loop", "dl_check", "dl_return"}

ReachableDead == { m \in R : IsDeadMarking(m) }
UnreachableDead == { m \in Markings \ R : IsDeadMarking(m) }

\* C2: once both analyses have run, the converged diagram accepts exactly
\* the markings of the BFS visited set: same count, same membership for
\* every bit vector.
C2_BddAgreesWithBfs ==
  (pc = "done") =>
    /\ count_bdd = Cardinality(visited)
    /\ \A m \in Markings : is_marking_reachable_bdd(m) <=> (m \in visited)

\* C3: a marking returned by find_deadlock_with_ilp is accepted by the
\* reachability oracle and is a dead marking.
C3_FoundIsReachableDead ==
  (pc = "dl_return" /\ ret # None) =>
    (is_reachable(ValueOf(ret)) /\ IsDeadMarking(ValueOf(ret)))

C5_InconclusiveNotReportedAbsent ==
  (pc = "done" /\ status \in InconclusiveStatus) => report # NoDeadlockReport

\* C6: exceeding max_iter is never reported as "no deadlock".
C6_LimitNotReportedAbsent ==
  (pc = "done" /\ log = "WARN max_iter exceeded") => report # NoDeadlockReport

\* C7: on a net in which no reachable marking is dead the search returns no
\* marking.
C7_NoDeadNeverFound ==
  (pc = "dl_return" /\ ReachableDead = {}) => ret = None

\* C8: with an empty-preset transition the model is unsatisfiable from the
\* start, so no candidate is ever decoded and the first solve ends the
\* search in Infeasible.
C8_EmptyPresetInfeasible ==
  (HasEmptyPreset /\ (DeadlockPhase \/ pc = "crashed")) =>
    /\ pc # "crashed"
    /\ Solutions(model) = {}
    /\ cands = << >>
    /\ (pc = "dl_return" => (status = "Infeasible" /\ iteration = 1))

\* the weighted sum of place bits of marking m
Objective(m) ==
  SumOver(1 .. NumPlaces,
          [k \in 1 .. NumPlaces |-> weights[net.places[k]] * Bit(m, k - 1)])

\* C1: the reported objective value is the maximum of the weighted sum over
\* the reachable set (stated for runs in which no memo lookup hit another
\* node's entry).
C1_ReportedIsMaximum ==
  (pc = "opt_done" /\ ~aliased) =>
    /\ \A m \in R : Objective(m) <= final_total_score
    /\ \E m \in R : Objective(m) = final_total_score

\* C9: the completed assignment is a member of the reachable set (stated
\* for runs in which no memo lookup hit another node's entry).
C9_FinalIsReachable ==
  (pc = "opt_done" /\ ~aliased) => final_bitmap_val \in R

\* C10: the reported objective value equals the recomputed sum of weight
\* times bit over the completed assignment (stated for runs in which no memo
\* lookup hit another node's entry).
C10_ReportedEqualsCheckSum ==
  (pc = "opt_done" /\ ~aliased) => final_total_score = check_sum

\* a net of one place that no transition touches
IsolatedPlaceNet ==
  /\ NumPlaces = 1
  /\ \A j \in 1 .. Len(net.transitions) :
       net.transitions[j].pre_mask = 0 /\ net.transitions[j].post_mask = 0

C12_OraclesInterchangeable ==
  (pc = "dl_check" /\ oracle \in {is_reachable_marking, is_reachable_bfs}) =>
    ((M \in is_reachable_marking) <=> (M \in is_reachable_bfs))

\* build_reachability_bdd has returned
Converged == pc \notin {"start", "bfs", "bdd_init", "bdd_loop"}

\* C13: one more image-and-union step on the converged set returns the same
\* set, and the converged set is closed under every transition relation:
\* a pair of a relation that starts in R ends in R.
C13_ConvergedIsClosed ==
  Converged =>
    /\ R_new(R) = R
    /\ \A j \in 1 .. Len(net.transitions) :
         \A p \in TransBdd(net.transitions[j]) : p[1] \in R => p[2] \in R

\* C13 witness: a converged set that took several iterations to build
C13_Witness ==
  /\ Converged
  /\ bdd_iter >= 3
  /\ Cardinality(R) >= 3
  /\ \E j \in 1 .. Len(net.transitions) :
       \E p \in TransBdd(net.transitions[j]) : p[1] \in R /\ p[2] # p[1]

\* place i is in the preset of t / in the postset of t
InPreset(t, i) == Bit(t.pre_mask, i) = 1
InPostset(t, i) == Bit(t.post_mask, i) = 1

\* C14: is_enabled(M, t) holds exactly when every preset place of t holds a
\* token in M, fire(M, t) leaves every place outside preset(t) and
\* postset(t) as it is in M, and every firing bfs_reachability recorded in
\* pred was of a transition whose preset places were all marked and changed
\* no place outside its preset and postset.
C14_EnabledAndFrame ==
  /\ \A j \in 1 .. Len(net.transitions) : \A m \in Markings :
       LET t == net.transitions[j]
       IN /\ is_enabled(m, t) <=> (\A i \in PlaceIdx : InPreset(t, i) => Bit(m, i) = 1)
          /\ \A i \in PlaceIdx :
               (~InPreset(t, i) /\ ~InPostset(t, i)) => Bit(fire(m, t), i) = Bit(m, i)
  /\ \A m2 \in DOMAIN pred :
       LET m == pred[m2][1]
           t == net.transitions[pred[m2][2]]
       IN /\ \A i \in PlaceIdx : InPreset(t, i) => Bit(m, i) = 1
          /\ \A i \in PlaceIdx :
               (~InPreset(t, i) /\ ~InPostset(t, i)) => Bit(m2, i) = Bit(m, i)

\* C14 witness: BFS fired a transition with a two-place preset, and one with
\* a marked place outside its preset and postset
C14_Witness ==
  /\ \E m2 \in DOMAIN pred : net.transitions[pred[m2][2]].pre_mask = 3
  /\ \E m2 \in DOMAIN pred :
       LET t == net.transitions[pred[m2][2]]
       IN \E i \in PlaceIdx :
            ~InPreset(t, i) /\ ~InPostset(t, i) /\ Bit(pred[m2][1], i) = 1

\* C15: decoding a marking into the list of its marked places by place
\* order and encoding that list again through place_index gives back the
\* same bit vector, for every marking over the places of the net.
C15_DecodeEncodeRoundTrip ==
  \A m \in Markings :
    bitmap_of_places(fmt_marking(m, net.places), 1, 0) = m

\* C15 witness: main.py has formatted an initial marking that marks the
\* second place only
C15_Witness ==
  /\ pc = "bdd_init"
  /\ NumPlaces = 2
  /\ net.initial = 2
  /\ fmt_marking(net.initial, net.places) = << net.places[2] >>
  /\ bitmap_of_places(fmt_marking(net.initial, net.places), 1, 0) = net.initial

\* C16: once the relations are built, the relation of every transition t is
\* satisfied by a pair (M, M2) exactly when is_enabled(M, t) holds and
\* fire(M, t) = M2.
C16_RelationIsFiring ==
  (pc \notin {"start", "bfs", "bdd_init"}) =>
    \A j \in 1 .. Len(net.transitions) : \A m, m2 \in Markings :
      (<< m, m2 >> \in TransBdd(net.transitions[j]))
        <=> (is_enabled(m, net.transitions[j]) /\ fire(m, net.transitions[j]) = m2)

\* the markings reachable from the set S by zero or more pairs of the
\* transition relations
RECURSIVE RelClosure(_)
RelClosure(S) ==
  LET step == { m2 \in Markings :
                  \E m \in S : \E j \in 1 .. Len(net.transitions) :
                    << m, m2 >> \in TransBdd(net.transitions[j]) }
  IN IF step \subseteq S THEN S ELSE RelClosure(S \cup step)

\* C17: every step of the program leaves R a superset of what it was, and
\* every marking of the new R is reachable from the initial marking by zero
\* or more firings of the transition relations.
C17_MonotoneAndReachable ==
  [][ /\ R \subseteq R'
      /\ R' \subseteq RelClosure({net.initial}) ]_vars

\* C17 witness: the loop is at an iterate that grew twice
C17_Witness ==
  /\ pc = "bdd_loop"
  /\ bdd_iter >= 2
  /\ Cardinality(R) >= 3
  /\ net.initial \in R

\* C18: from the first iterate on, the initial marking is a member of R, so
\* R is never the FALSE diagram, and the optimizer never takes the branch
\* that prints "No reachable marking found."
C18_InitialAlwaysInR ==
  /\ (pc \notin {"start", "bfs", "bdd_init"}) =>
       (net.initial \in R /\ R # BddFalse)
  /\ pc # "opt_none"

\* C18 witness: the optimizer reported a marking of a reachable set that
\* grew beyond the initial marking
C18_Witness ==
  /\ pc = "opt_done"
  /\ bdd_iter >= 3
  /\ net.initial \in R
  /\ R # {net.initial}
  /\ ~base_max_val.inf

\* C19: the fixed-point loop, once entered, is left; it makes at most
\* 2^(place count) passes; and a pass after which the loop goes on has added
\* a marking to R (the loop stops at the first pass that adds none).
C19_FixedPointTerminates ==
  /\ (pc = "bdd_loop") ~> (pc = "done")
  /\ [](bdd_iter <= 2 ^ NumPlaces)
  /\ [][ (pc = "bdd_loop" /\ pc' = "bdd_loop") =>
           (R \subseteq R' /\ R' # R) ]_vars

\* C19 witness: a run of the loop that took the full 2^(place count) passes
\* on a net of two places
C19_Witness ==
  /\ pc = "done"
  /\ NumPlaces = 2
  /\ bdd_iter = 2 ^ NumPlaces
  /\ R = Markings

\* the number of model.solve calls made so far: one per pass of the loop,
\* except the pass that stops at the iteration cap
SolverCalls ==
  IF pc = "dl_return" /\ log = "WARN max_iter exceeded"
  THEN iteration - 1
  ELSE iteration

\* C20: whatever the net and the oracle, the refinement loop makes at most
\* 2^(place count) solver calls.
C20_AtMostPow2SolverCalls ==
  DeadlockPhase => SolverCalls <= 2 ^ NumPlaces

\* C21: within one call of find_deadlock_with_ilp the decoded candidates are
\* pairwise different, whatever the oracle.
C21_CandidatesDistinct ==
  \A a, b \in 1 .. Len(cands) : a # b => cands[a] # cands[b]

\* C21 witness: a third candidate reached the oracle after two were blocked
C21_Witness ==
  /\ pc = "dl_check"
  /\ Len(cands) >= 3
  /\ iteration = Len(cands)
  /\ Len(model) >= 2
  /\ model[Len(model)].kind = "block"

\* the candidates rejected so far: every decoded candidate but the one that
\* is at the reachability test or was returned
RejectedCands ==
  IF pc = "dl_check" \/ (pc = "dl_return" /\ ret # None)
  THEN { cands[k] : k \in 1 .. (Len(cands) - 1) }
  ELSE { cands[k] : k \in 1 .. Len(cands) }

\* C22: at every point of the refinement loop the assignments satisfying the
\* model are exactly the dead markings minus the candidates rejected so far
\* (each no-good removed its own candidate and nothing else), and no
\* rejected candidate is one the oracle accepts.
C22_ModelIsDeadMinusRejected ==
  DeadlockPhase =>
    /\ { Decode(x) : x \in Solutions(model) }
         = { m \in Markings : IsDeadMarking(m) } \ RejectedCands
    /\ RejectedCands \cap oracle = {}

\* the weight of the place whose variable labels node f
NodeWeight(f) == weights[net.places[NodeLevel(f) + 1]]

\* the recurrence: best(FALSE) = minus infinity, best(TRUE) = 0,
\* best(node) = max(best(low), best(high) + weight(variable))
RECURSIVE best(_)
best(f) ==
  IF f = {} THEN [inf |-> TRUE, score |-> 0]
  ELSE IF f = Markings THEN [inf |-> FALSE, score |-> 0]
  ELSE LET lo == best(NodeLow(f))
           hi == best(NodeHigh(f))
       IN IF hi.inf THEN lo
          ELSE IF lo.inf \/ hi.score + NodeWeight(f) >= lo.score
               THEN [inf |-> FALSE, score |-> hi.score + NodeWeight(f)]
               ELSE lo

\* the paths from node f to TRUE: each a map from the place indices of the
\* variables met on the path to the branch taken
RECURSIVE PathsToTrue(_)
PathsToTrue(f) ==
  IF f = {} THEN {}
  ELSE IF f = Markings THEN { EmptyMap }
  ELSE { PathSet(p, NodeLevel(f), 0) : p \in PathsToTrue(NodeLow(f)) }
       \cup { PathSet(p, NodeLevel(f), 1) : p \in PathsToTrue(NodeHigh(f)) }

\* the weighted sum of the assignments of path p
PathScore(p) ==
  SumOver(DOMAIN p, [i \in DOMAIN p |-> weights[net.places[i + 1]] * p[i]])

\* C23: the pair find_optimal_marking returned for the root R has the score
\* of the recurrence, and its partial assignment gives exactly the places of
\* the variables on one path from R to TRUE the branch taken there, the
\* weighted sum of that path being the returned score.
C23_ReturnsRecurrenceAndPath ==
  (pc = "opt_complete") =>
    /\ base_max_val = best(R)
    /\ \E p \in PathsToTrue(R) :
         /\ PathScore(p) = base_max_val.score
         /\ DOMAIN partial_marking = { net.places[i + 1] : i \in DOMAIN p }
         /\ \A i \in DOMAIN p : partial_marking[net.places[i + 1]] = p[i]

\* the recursion of find_optimal_marking without steps 2 and 6 (no memo)
RECURSIVE Unmemoized(_, _)
Unmemoized(f, w) ==
  IF f = {} THEN NegInf
  ELSE IF f = Markings THEN Zero
  ELSE Combine(f, w, Unmemoized(NodeLow(f), w), Unmemoized(NodeHigh(f), w))

\* C24: no memo lookup of the call hit an entry stored for another node,
\* and the call returned what the recursion without a memo returns.
C24_MemoHitsOnlySameNode ==
  (pc = "opt_complete") =>
    /\ ~aliased
    /\ base_max_val.inf = Unmemoized(R, weights).inf
    /\ base_max_val.score = Unmemoized(R, weights).score
    /\ partial_marking = Unmemoized(R, weights).path

\* bfs_reachability has returned
BfsDone == pc \notin {"start", "bfs"}

\* whether following pred from m reaches the initial marking within k steps
RECURSIVE ReachesInitial(_, _)
ReachesInitial(m, k) ==
  IF m = net.initial THEN TRUE
  ELSE IF k = 0 \/ m \notin DOMAIN pred THEN FALSE
  ELSE ReachesInitial(pred[m][1], k - 1)

\* C25: after bfs_reachability the entries of pred are exactly the visited
\* markings other than the initial one; each entry pred[M2] = (M, t) names a
\* visited M and a transition t enabled at M with fire(M, t) = M2; and
\* following pred from any visited marking reaches the initial marking.
C25_PredIsSpanningTree ==
  BfsDone =>
    /\ DOMAIN pred = visited \ {net.initial}
    /\ \A m2 \in DOMAIN pred :
         /\ pred[m2][1] \in visited
         /\ pred[m2][2] \in 1 .. Len(net.transitions)
         /\ is_enabled(pred[m2][1], net.transitions[pred[m2][2]])
         /\ fire(pred[m2][1], net.transitions[pred[m2][2]]) = m2
    /\ \A m \in visited : ReachesInitial(m, Cardinality(visited))

\* C25 witness: a tree of depth three: some marking is three firings away
\* from the initial marking
C25_Witness ==
  /\ BfsDone
  /\ Cardinality(visited) >= 4
  /\ \E m \in visited :
       /\ ReachesInitial(m, 3)
       /\ ~ReachesInitial(m, 2)

====
